---- MODULE Spec2Model ----
(***************************************************************************)
(* Model of cloud/ssh/sshproviderclient.go: the SSH provider client.       *)
(* Every ProcessCMD / ProcessCMDWithOutput / WriteFile call runs           *)
(* GetBasicSession (dial, credential resolution, handshake, keepalive      *)
(* goroutine, session), acts over the session and runs its deferred        *)
(* releases.  Calls on the one client may run concurrently; each keepalive *)
(* goroutine runs concurrently with everything else.                       *)
(***************************************************************************)
EXTENDS Naturals, Sequences, FiniteSets

(* ---------------------------------------------------------------- bounds *)
MaxLen == 1
MaxExit == 1

\* Two callers use the one client at the same time.
Calls == {"c1", "c2"}
Bytes == {0}
ExitCodes == 0..MaxExit

RECURSIVE SeqsUpTo(_)
SeqsUpTo(n) ==
    IF n = 0 THEN {<<>>}
    ELSE SeqsUpTo(n - 1) \cup
         {Append(q, b) : q \in {x \in SeqsUpTo(n - 1) : Len(x) = n - 1}, b \in Bytes}

Outputs == SeqsUpTo(MaxLen)

(* ------------------------------------------------------- values and sets *)
\* A nil pointer.
Nil == "nil"
\* A []byte result: nil, or a slice holding bytes b.
NilBytes == <<>>
SomeBytes(b) == <<b>>
\* An error value: nil, an error of some kind, or an error wrapped in a message.
NoErr == <<>>
Err(kind) == <<kind>>
\* An exit status is held as a set: empty while none was reported.
NoStatus == {}

OpCMD == "ProcessCMD"
OpOUT == "ProcessCMDWithOutput"
OpWF == "WriteFile"
Ops == {OpCMD, OpOUT, OpWF}

\* The Host of the machine's SSHConfig: a bare host, or a host that already
\* carries a port.  net.Dial accepts only an address of the form host:port.
HostsWithPort == {"10.0.0.5:22"}
Hosts == {"10.0.0.5"} \cup HostsWithPort
Ports == {22}
Users == {"core"}
\* Private-key material: none, not a key at all, an unencrypted key, a key
\* encrypted under the passphrase "secret".
Keys == {"", "garbage", "plainkey", "enckey"}
PassPhrases == {"", "secret", "wrong"}

DeferSessionClose == "session.Close"
DeferConnectionClose == "connection.Close"
DeferRemove == "os.Remove"

VARIABLES
    s,            \* the sshProviderClient struct
    agentUp,      \* whether the socket named by SSH_AUTH_SOCK accepts a dial
    pc,           \* pc[c]: where call c stands
    op,           \* op[c]: the method call c runs
    tcp,          \* tcp[c]: the transport dialled by call c
    authMethods,  \* authMethods[c]: sshAuthMethods of call c's GetBasicSession
    hsAttempts,   \* hsAttempts[c]: ssh.NewClientConn invocations over tcp[c]
    handshaked,   \* handshaked[c]: an ssh.Client exists over tcp[c]
    ka,           \* ka[c]: the keepalive goroutine of the client over tcp[c]
    kaCount,      \* kaCount[c]: goroutines ever started for that client
    sess,         \* sess[c]: the session opened on that client
    connection,   \* connection[c]: the caller's variable `connection`
    session,      \* session[c]: the caller's variable `session`
    defers,       \* defers[c]: the caller's deferred calls, in registration order
    tmp,          \* tmp[c]: the temporary file created by call c
    captured,     \* captured[c]: the bytes session.Output captured
    exitStatus,   \* exitStatus[c]: exit status the remote command reported
    ret,          \* ret[c]: the value call c returns
    cmd,          \* cmd[c]: the command call c was given
    dials,        \* dials[c]: net.Dial invocations of call c
    dialled,      \* dialled[c]: the address call c handed to net.Dial
    nsess,        \* nsess[c]: sessions opened on the client over tcp[c]
    runs,         \* runs[c]: commands or copies call c ran over its session
    kaFailed,     \* kaFailed[c]: SendRequest calls of the goroutine that failed
    wrapper,      \* wrapper[c]: the kubeconfig method that made call c
    kube,         \* kube[c]: the value that kubeconfig method returns
    act           \* act[m]: the Actuator.GetKubeConfig invocation for machine m

vars == <<s, agentUp, pc, op, tcp, authMethods, hsAttempts, handshaked, ka,
          kaCount, sess, connection, session, defers, tmp, captured,
          exitStatus, ret, cmd, dials, dialled, nsess, runs, kaFailed,
          wrapper, kube, act>>

\* The commands callers hand to ProcessCMD and ProcessCMDWithOutput.
Commands == {"uptime"}

\* The address GetBasicSession hands to net.Dial: the address field alone.
DialTarget(client) ==
    <<client.address>>

\* No kubeconfig method has returned.
NoKube == [text |-> <<>>, bytes |-> NilBytes, err |-> NoErr, set |-> FALSE]

\* The machines Actuator.GetKubeConfig is invoked for.
Machines == {"m1", "m2"}

\* Actuator.GetKubeConfig has not been invoked for a machine.
ActIdle ==
    [pc |-> "idle", machineConfig |-> <<>>, keyConfig |-> <<>>,
     secret |-> <<>>, privateKey |-> <<>>, sshCalls |-> 0, sshArgs |-> <<>>,
     ret |-> [text |-> "", err |-> NoErr]]

\* NewSSHProviderClient: the struct's fields are copied from the arguments.
NewSSHProviderClient(privateKey, passPhrase, host, port, username) ==
    [username |-> username, address |-> host, port |-> port,
     privateKey |-> privateKey, passPhrase |-> passPhrase]

Init ==
    /\ s \in {NewSSHProviderClient(k, p, h, pt, u) :
                k \in Keys, p \in PassPhrases, h \in Hosts, pt \in Ports, u \in Users}
    /\ agentUp \in BOOLEAN
    /\ pc = [c \in Calls |-> "idle"]
    /\ op = [c \in Calls |-> Nil]
    /\ tcp = [c \in Calls |-> "none"]
    /\ authMethods = [c \in Calls |-> <<>>]
    /\ hsAttempts = [c \in Calls |-> 0]
    /\ handshaked = [c \in Calls |-> FALSE]
    /\ ka = [c \in Calls |-> "none"]
    /\ kaCount = [c \in Calls |-> 0]
    /\ sess = [c \in Calls |-> "none"]
    /\ connection = [c \in Calls |-> Nil]
    /\ session = [c \in Calls |-> Nil]
    /\ defers = [c \in Calls |-> <<>>]
    /\ tmp = [c \in Calls |-> "none"]
    /\ captured = [c \in Calls |-> NilBytes]
    /\ exitStatus = [c \in Calls |-> NoStatus]
    /\ ret = [c \in Calls |-> [out |-> NilBytes, err |-> NoErr]]
    /\ cmd = [c \in Calls |-> Nil]
    /\ dials = [c \in Calls |-> 0]
    /\ dialled = [c \in Calls |-> <<>>]
    /\ nsess = [c \in Calls |-> 0]
    /\ runs = [c \in Calls |-> 0]
    /\ kaFailed = [c \in Calls |-> 0]
    /\ wrapper = [c \in Calls |-> Nil]
    /\ kube = [c \in Calls |-> NoKube]
    /\ act = [m \in Machines |-> ActIdle]

(* ------------------------------------------------------ credential parse *)
\* ssh.ParsePrivateKey: the outcomes of parsing key material without a
\* passphrase.  Only an unencrypted key parses.
ParsePrivateKey(k) ==
    IF k = "plainkey" THEN {"ok"} ELSE {"err"}

\* ssh.ParsePrivateKeyWithPassphrase: an encrypted key parses under its own
\* passphrase only; whether an unencrypted key is accepted together with a
\* passphrase depends on the library release, so both outcomes are possible.
ParsePrivateKeyWithPassphrase(k, p) ==
    CASE k = "enckey" -> (IF p = "secret" THEN {"ok"} ELSE {"err"})
      [] k = "plainkey" -> {"ok", "err"}
      [] OTHER -> {"err"}

\* PublicKeyFile: the possible results ("ok": an AuthMethod, "err": an error).
PublicKeyFile(privateKey, passPhrase) ==
    IF passPhrase = ""
    THEN ParsePrivateKey(privateKey)
    ELSE ParsePrivateKeyWithPassphrase(privateKey, passPhrase)

\* A variant that returns an agent method without looking at the dial error.
SSHAgent_IgnoresDialError ==
    <<"agent">>

\* SSHAgent: an agent AuthMethod when the agent socket can be dialled, else nil.
SSHAgent ==
    IF agentUp THEN <<"agent">> ELSE <<>>

(* -------------------------------------------------------- error handling *)
\* The callers' `if err != nil` after GetBasicSession: the error is wrapped
\* and returned at once; nothing has been deferred yet.
SessionErr(o, e) ==
    <<IF o = OpOUT THEN "failed to create session" ELSE "failed to create a session"
     >> \o e

FailCreate(c, e) ==
    /\ ret' = [ret EXCEPT ![c] = [out |-> NilBytes, err |-> SessionErr(op[c], e)]]
    /\ pc' = [pc EXCEPT ![c] = "done"]

(* ------------------------------------------------------------ call entry *)
\* A caller invokes one of the three methods on the client.
Invoke(c) ==
    /\ pc[c] = "idle"
    /\ \E o \in Ops : op' = [op EXCEPT ![c] = o]
    /\ pc' = [pc EXCEPT ![c] = "dial"]
    /\ \E k \in Commands : cmd' = [cmd EXCEPT ![c] = k]
    /\ UNCHANGED <<dials, dialled, nsess, runs, kaFailed, wrapper, kube, act>>
    /\ UNCHANGED <<s, agentUp, tcp, authMethods, hsAttempts, handshaked, ka,
                   kaCount, sess, connection, session, defers, tmp, captured,
                   exitStatus, ret>>

(* ------------------------------------------------------- GetBasicSession *)
\* net.Dial("tcp", address) can connect only when the address names a port.
DialCanConnect(address) ==
    address \in HostsWithPort

\* net.Dial fails: no transport exists, the error is returned.
DialFail(c) ==
    /\ pc[c] = "dial"
    /\ FailCreate(c, Err("dial"))
    /\ dials' = [dials EXCEPT ![c] = @ + 1]
    /\ dialled' = [dialled EXCEPT ![c] = DialTarget(s)]
    /\ UNCHANGED <<cmd, nsess, runs, kaFailed, wrapper, kube, act>>
    /\ UNCHANGED <<s, agentUp, op, tcp, authMethods, hsAttempts, handshaked, ka,
                   kaCount, sess, connection, session, defers, tmp, captured,
                   exitStatus>>

\* net.Dial succeeds, SetKeepAlive or SetKeepAlivePeriod fails: the closure
\* returns nil, err and drops the dialled transport without closing it.
DialKeepAliveFail(c) ==
    /\ pc[c] = "dial"
    /\ DialCanConnect(s.address)
    /\ tcp' = [tcp EXCEPT ![c] = "open"]
    /\ FailCreate(c, Err("keepalive"))
    /\ dials' = [dials EXCEPT ![c] = @ + 1]
    /\ dialled' = [dialled EXCEPT ![c] = DialTarget(s)]
    /\ UNCHANGED <<cmd, nsess, runs, kaFailed, wrapper, kube, act>>
    /\ UNCHANGED <<s, agentUp, op, authMethods, hsAttempts, handshaked, ka,
                   kaCount, sess, connection, session, defers, tmp, captured,
                   exitStatus>>

\* A variant that starts the keepalive goroutine as soon as the dial succeeds.
DialOk_StartsKeepalive(c) ==
    /\ pc[c] = "dial"
    /\ DialCanConnect(s.address)
    /\ tcp' = [tcp EXCEPT ![c] = "open"]
    /\ ka' = [ka EXCEPT ![c] = "running"]
    /\ kaCount' = [kaCount EXCEPT ![c] = @ + 1]
    /\ pc' = [pc EXCEPT ![c] = "auth"]
    /\ dials' = [dials EXCEPT ![c] = @ + 1]
    /\ dialled' = [dialled EXCEPT ![c] = DialTarget(s)]
    /\ UNCHANGED <<cmd, nsess, runs, kaFailed, wrapper, kube, act>>
    /\ UNCHANGED <<s, agentUp, op, authMethods, hsAttempts, handshaked,
                   sess, connection, session, defers, tmp, captured,
                   exitStatus, ret>>

\* net.Dial and both keepalive settings succeed.
DialOk(c) ==
    /\ pc[c] = "dial"
    /\ DialCanConnect(s.address)
    /\ tcp' = [tcp EXCEPT ![c] = "open"]
    /\ pc' = [pc EXCEPT ![c] = "auth"]
    /\ dials' = [dials EXCEPT ![c] = @ + 1]
    /\ dialled' = [dialled EXCEPT ![c] = DialTarget(s)]
    /\ UNCHANGED <<cmd, nsess, runs, kaFailed, wrapper, kube, act>>
    /\ UNCHANGED <<s, agentUp, op, authMethods, hsAttempts, handshaked, ka,
                   kaCount, sess, connection, session, defers, tmp, captured,
                   exitStatus, ret>>

\* A variant that skips a key that does not parse and goes on with the agent.
AuthParseFail_SkipKey(c) ==
    /\ pc[c] = "auth"
    /\ s.privateKey # ""
    /\ "err" \in PublicKeyFile(s.privateKey, s.passPhrase)
    /\ authMethods' = [authMethods EXCEPT ![c] = SSHAgent]
    /\ pc' = [pc EXCEPT ![c] = "handshake"]
    /\ UNCHANGED <<cmd, dials, dialled, nsess, runs, kaFailed, wrapper, kube, act>>
    /\ UNCHANGED <<s, agentUp, op, tcp, hsAttempts, handshaked, ka,
                   kaCount, sess, connection, session, defers, tmp, captured,
                   exitStatus, ret>>

\* Key material is present and PublicKeyFile returns an error: GetBasicSession
\* returns nil, nil, err before SSHAgent or the handshake is reached.
AuthParseFail(c) ==
    /\ pc[c] = "auth"
    /\ s.privateKey # ""
    /\ "err" \in PublicKeyFile(s.privateKey, s.passPhrase)
    /\ FailCreate(c, Err("parse"))
    /\ UNCHANGED <<cmd, dials, dialled, nsess, runs, kaFailed, wrapper, kube, act>>
    /\ UNCHANGED <<s, agentUp, op, tcp, authMethods, hsAttempts, handshaked, ka,
                   kaCount, sess, connection, session, defers, tmp, captured,
                   exitStatus>>

\* A variant that offers the agent method before the public-key method.
AuthOk_AgentFirst(c) ==
    /\ pc[c] = "auth"
    /\ \/ s.privateKey = ""
       \/ "ok" \in PublicKeyFile(s.privateKey, s.passPhrase)
    /\ authMethods' = [authMethods EXCEPT ![c] =
            SSHAgent \o (IF s.privateKey # "" THEN <<"publickey">> ELSE <<>>)]
    /\ pc' = [pc EXCEPT ![c] = "handshake"]
    /\ UNCHANGED <<cmd, dials, dialled, nsess, runs, kaFailed, wrapper, kube, act>>
    /\ UNCHANGED <<s, agentUp, op, tcp, hsAttempts, handshaked, ka,
                   kaCount, sess, connection, session, defers, tmp, captured,
                   exitStatus, ret>>

\* The method list: the public-key method when key material is present and
\* parses, then the agent method when SSHAgent returns one.
AuthOk(c) ==
    /\ pc[c] = "auth"
    /\ \/ s.privateKey = ""
       \/ "ok" \in PublicKeyFile(s.privateKey, s.passPhrase)
    /\ authMethods' = [authMethods EXCEPT ![c] =
            (IF s.privateKey # "" THEN <<"publickey">> ELSE <<>>) \o SSHAgent]
    /\ pc' = [pc EXCEPT ![c] = "handshake"]
    /\ UNCHANGED <<cmd, dials, dialled, nsess, runs, kaFailed, wrapper, kube, act>>
    /\ UNCHANGED <<s, agentUp, op, tcp, hsAttempts, handshaked, ka,
                   kaCount, sess, connection, session, defers, tmp, captured,
                   exitStatus, ret>>

\* A variant that drops the handshake error and carries on with a client.
HandshakeFail_Ignored(c) ==
    /\ pc[c] = "handshake"
    /\ hsAttempts' = [hsAttempts EXCEPT ![c] = @ + 1]
    /\ tcp' = [tcp EXCEPT ![c] = "closed"]
    /\ ka' = [ka EXCEPT ![c] = "running"]
    /\ kaCount' = [kaCount EXCEPT ![c] = @ + 1]
    /\ pc' = [pc EXCEPT ![c] = "newsession"]
    /\ UNCHANGED <<cmd, dials, dialled, nsess, runs, kaFailed, wrapper, kube, act>>
    /\ UNCHANGED <<s, agentUp, op, authMethods, handshaked, sess, connection,
                   session, defers, tmp, captured, exitStatus, ret>>

\* A variant that tries the handshake again when it fails.
HandshakeFail_Retry(c) ==
    /\ pc[c] = "handshake"
    /\ hsAttempts' = [hsAttempts EXCEPT ![c] = @ + 1]
    /\ UNCHANGED <<cmd, dials, dialled, nsess, runs, kaFailed, wrapper, kube, act>>
    /\ UNCHANGED <<s, agentUp, pc, op, tcp, authMethods, handshaked, ka,
                   kaCount, sess, connection, session, defers, tmp, captured,
                   exitStatus, ret>>

\* ssh.NewClientConn fails (rejected credentials, no method left, timeout):
\* the library closes the transport it was given; the error is returned.
HandshakeFail(c) ==
    /\ pc[c] = "handshake"
    /\ hsAttempts' = [hsAttempts EXCEPT ![c] = @ + 1]
    /\ tcp' = [tcp EXCEPT ![c] = "closed"]
    /\ FailCreate(c, Err("handshake"))
    /\ UNCHANGED <<cmd, dials, dialled, nsess, runs, kaFailed, wrapper, kube, act>>
    /\ UNCHANGED <<s, agentUp, op, authMethods, handshaked, ka,
                   kaCount, sess, connection, session, defers, tmp, captured,
                   exitStatus>>

\* ssh.NewClientConn succeeds with one of the offered methods; ssh.NewClient
\* wraps the connection and the keepalive goroutine is started on it.
HandshakeOk(c) ==
    /\ pc[c] = "handshake"
    /\ authMethods[c] # <<>>
    /\ hsAttempts' = [hsAttempts EXCEPT ![c] = @ + 1]
    /\ handshaked' = [handshaked EXCEPT ![c] = TRUE]
    /\ ka' = [ka EXCEPT ![c] = "running"]
    /\ kaCount' = [kaCount EXCEPT ![c] = @ + 1]
    /\ pc' = [pc EXCEPT ![c] = "newsession"]
    /\ UNCHANGED <<cmd, dials, dialled, nsess, runs, kaFailed, wrapper, kube, act>>
    /\ UNCHANGED <<s, agentUp, op, tcp, authMethods, sess, connection, session,
                   defers, tmp, captured, exitStatus, ret>>

\* client.NewSession fails: GetBasicSession returns nil, client, err; the
\* caller takes its error branch and returns without closing the client.
NewSessionFail(c) ==
    /\ pc[c] = "newsession"
    /\ connection' = [connection EXCEPT ![c] = c]
    /\ FailCreate(c, Err("session"))
    /\ UNCHANGED <<cmd, dials, dialled, nsess, runs, kaFailed, wrapper, kube, act>>
    /\ UNCHANGED <<s, agentUp, op, tcp, authMethods, hsAttempts, handshaked, ka,
                   kaCount, sess, session, defers, tmp, captured, exitStatus>>

\* A variant whose caller defers connection.Close only.
NewSessionOk_NoSessionDefer(c) ==
    /\ pc[c] = "newsession"
    /\ tcp[c] = "open"
    /\ sess' = [sess EXCEPT ![c] = "open"]
    /\ session' = [session EXCEPT ![c] = c]
    /\ connection' = [connection EXCEPT ![c] = c]
    /\ defers' = [defers EXCEPT ![c] = <<DeferConnectionClose>>]
    /\ pc' = [pc EXCEPT ![c] = IF op[c] = OpWF THEN "tempfile" ELSE "run"]
    /\ nsess' = [nsess EXCEPT ![c] = @ + 1]
    /\ UNCHANGED <<cmd, dials, dialled, runs, kaFailed, wrapper, kube, act>>
    /\ UNCHANGED <<s, agentUp, op, tcp, authMethods, hsAttempts, handshaked, ka,
                   kaCount, tmp, captured, exitStatus, ret>>

\* A variant whose caller defers connection.Close, then session.Close.
NewSessionOk_ConnectionDeferFirst(c) ==
    /\ pc[c] = "newsession"
    /\ tcp[c] = "open"
    /\ sess' = [sess EXCEPT ![c] = "open"]
    /\ session' = [session EXCEPT ![c] = c]
    /\ connection' = [connection EXCEPT ![c] = c]
    /\ defers' = [defers EXCEPT ![c] = <<DeferConnectionClose, DeferSessionClose>>]
    /\ pc' = [pc EXCEPT ![c] = IF op[c] = OpWF THEN "tempfile" ELSE "run"]
    /\ nsess' = [nsess EXCEPT ![c] = @ + 1]
    /\ UNCHANGED <<cmd, dials, dialled, runs, kaFailed, wrapper, kube, act>>
    /\ UNCHANGED <<s, agentUp, op, tcp, authMethods, hsAttempts, handshaked, ka,
                   kaCount, tmp, captured, exitStatus, ret>>

\* client.NewSession succeeds on a working connection; the caller receives
\* session and client and defers session.Close, then connection.Close.
NewSessionOk(c) ==
    /\ pc[c] = "newsession"
    /\ tcp[c] = "open"
    /\ sess' = [sess EXCEPT ![c] = "open"]
    /\ session' = [session EXCEPT ![c] = c]
    /\ connection' = [connection EXCEPT ![c] = c]
    /\ defers' = [defers EXCEPT ![c] = <<DeferSessionClose, DeferConnectionClose>>]
    /\ pc' = [pc EXCEPT ![c] = IF op[c] = OpWF THEN "tempfile" ELSE "run"]
    /\ nsess' = [nsess EXCEPT ![c] = @ + 1]
    /\ UNCHANGED <<cmd, dials, dialled, runs, kaFailed, wrapper, kube, act>>
    /\ UNCHANGED <<s, agentUp, op, tcp, authMethods, hsAttempts, handshaked, ka,
                   kaCount, tmp, captured, exitStatus, ret>>

(* ------------------------------------------- ProcessCMD, ProcessCMDWithOutput *)
\* The error of session.Output / session.CombinedOutput: an exit error for a
\* non-zero exit status, a transport error when no status arrived or the
\* output could not be read to its end, nil otherwise.
RunErr(status, intact) ==
    IF status = NoStatus THEN Err("transport")
    ELSE IF status # {0} THEN Err("exit")
    ELSE IF intact THEN NoErr ELSE Err("transport")

\* What running a command over the session yields: on a working connection
\* the captured bytes and the exit status the remote reports; on a broken one
\* whatever was captured before the break, with or without an exit status.
RunOutcomes(c) ==
    IF tcp[c] = "open"
    THEN {[out |-> o, status |-> {st}, err |-> RunErr({st}, TRUE)] :
            o \in Outputs, st \in ExitCodes}
    ELSE {[out |-> o, status |-> st, err |-> RunErr(st, FALSE)] :
            o \in Outputs, st \in {NoStatus} \cup {{x} : x \in ExitCodes}}

\* The same without the bytes, for the caller that only logs the output.
RunStatuses(c) ==
    {[status |-> r.status, err |-> r.err] : r \in RunOutcomes(c)}

\* ProcessCMD: session.CombinedOutput(cmd); the output is logged, the error
\* alone is returned.
ProcessCMDReturn(r) ==
    [out |-> NilBytes, err |-> r.err]

\* A variant that returns the bytes only when the command succeeded.
ProcessCMDWithOutputReturn_NilOnError(r) ==
    [out |-> IF r.err = NoErr THEN SomeBytes(r.out) ELSE NilBytes, err |-> r.err]

\* ProcessCMDWithOutput: session.Output(cmd); `return outputBytes, err`.
ProcessCMDWithOutputReturn(r) ==
    [out |-> SomeBytes(r.out), err |-> r.err]

RunCMD(c) ==
    /\ pc[c] = "run"
    /\ op[c] = OpCMD
    /\ \E r \in RunStatuses(connection[c]) :
         /\ exitStatus' = [exitStatus EXCEPT ![c] = r.status]
         /\ ret' = [ret EXCEPT ![c] = ProcessCMDReturn(r)]
    /\ pc' = [pc EXCEPT ![c] = "defers"]
    /\ runs' = [runs EXCEPT ![c] = @ + 1]
    /\ UNCHANGED <<cmd, dials, dialled, nsess, kaFailed, wrapper, kube, act>>
    /\ UNCHANGED <<s, agentUp, op, tcp, authMethods, hsAttempts, handshaked, ka,
                   kaCount, sess, connection, session, defers, tmp, captured>>

RunOUT(c) ==
    /\ pc[c] = "run"
    /\ op[c] = OpOUT
    /\ \E r \in RunOutcomes(connection[c]) :
         /\ captured' = [captured EXCEPT ![c] = SomeBytes(r.out)]
         /\ exitStatus' = [exitStatus EXCEPT ![c] = r.status]
         /\ ret' = [ret EXCEPT ![c] = ProcessCMDWithOutputReturn(r)]
    /\ pc' = [pc EXCEPT ![c] = "defers"]
    /\ runs' = [runs EXCEPT ![c] = @ + 1]
    /\ UNCHANGED <<cmd, dials, dialled, nsess, kaFailed, wrapper, kube, act>>
    /\ UNCHANGED <<s, agentUp, op, tcp, authMethods, hsAttempts, handshaked, ka,
                   kaCount, sess, connection, session, defers, tmp>>

(* -------------------------------------------------------------- WriteFile *)
\* A `return err` of WriteFile after its defers were registered.
WriteFileReturn(c, e) ==
    /\ ret' = [ret EXCEPT ![c] = [out |-> NilBytes, err |-> e]]
    /\ pc' = [pc EXCEPT ![c] = "defers"]

\* ioutil.TempFile fails: no file exists, `return err`.
TempFileFail(c) ==
    /\ pc[c] = "tempfile"
    /\ WriteFileReturn(c, Err("tempfile"))
    /\ UNCHANGED <<cmd, dials, dialled, nsess, runs, kaFailed, wrapper, kube, act>>
    /\ UNCHANGED <<s, agentUp, op, tcp, authMethods, hsAttempts, handshaked, ka,
                   kaCount, sess, connection, session, defers, tmp, captured,
                   exitStatus>>

\* A variant that creates the file without deferring its removal.
TempFileOk_NoDefer(c) ==
    /\ pc[c] = "tempfile"
    /\ tmp' = [tmp EXCEPT ![c] = "exists"]
    /\ pc' = [pc EXCEPT ![c] = "write"]
    /\ UNCHANGED <<cmd, dials, dialled, nsess, runs, kaFailed, wrapper, kube, act>>
    /\ UNCHANGED <<s, agentUp, op, tcp, authMethods, hsAttempts, handshaked, ka,
                   kaCount, sess, connection, session, defers, captured,
                   exitStatus, ret>>

\* ioutil.TempFile succeeds; os.Remove of the file is deferred.
TempFileOk(c) ==
    /\ pc[c] = "tempfile"
    /\ tmp' = [tmp EXCEPT ![c] = "exists"]
    /\ defers' = [defers EXCEPT ![c] = Append(@, DeferRemove)]
    /\ pc' = [pc EXCEPT ![c] = "write"]
    /\ UNCHANGED <<cmd, dials, dialled, nsess, runs, kaFailed, wrapper, kube, act>>
    /\ UNCHANGED <<s, agentUp, op, tcp, authMethods, hsAttempts, handshaked, ka,
                   kaCount, sess, connection, session, captured, exitStatus, ret>>

\* A variant that goes on to the remote copy when the write fails.
WriteFail_CopiesAnyway(c) ==
    /\ pc[c] = "write"
    /\ pc' = [pc EXCEPT ![c] = "copy"]
    /\ UNCHANGED <<cmd, dials, dialled, nsess, runs, kaFailed, wrapper, kube, act>>
    /\ UNCHANGED <<s, agentUp, op, tcp, authMethods, hsAttempts, handshaked, ka,
                   kaCount, sess, connection, session, defers, tmp, captured,
                   exitStatus, ret>>

\* tempFile.Write fails: `return err`.
WriteFail(c) ==
    /\ pc[c] = "write"
    /\ WriteFileReturn(c, Err("write"))
    /\ UNCHANGED <<cmd, dials, dialled, nsess, runs, kaFailed, wrapper, kube, act>>
    /\ UNCHANGED <<s, agentUp, op, tcp, authMethods, hsAttempts, handshaked, ka,
                   kaCount, sess, connection, session, defers, tmp, captured,
                   exitStatus>>

\* tempFile.Write succeeds.
WriteOk(c) ==
    /\ pc[c] = "write"
    /\ tmp' = [tmp EXCEPT ![c] = "written"]
    /\ pc' = [pc EXCEPT ![c] = "copy"]
    /\ UNCHANGED <<cmd, dials, dialled, nsess, runs, kaFailed, wrapper, kube, act>>
    /\ UNCHANGED <<s, agentUp, op, tcp, authMethods, hsAttempts, handshaked, ka,
                   kaCount, sess, connection, session, defers, captured,
                   exitStatus, ret>>

\* scp.CopyPath fails (remote refusal, broken connection): `return err`.
CopyFail(c) ==
    /\ pc[c] = "copy"
    /\ WriteFileReturn(c, Err("copy"))
    /\ runs' = [runs EXCEPT ![c] = @ + 1]
    /\ UNCHANGED <<cmd, dials, dialled, nsess, kaFailed, wrapper, kube, act>>
    /\ UNCHANGED <<s, agentUp, op, tcp, authMethods, hsAttempts, handshaked, ka,
                   kaCount, sess, connection, session, defers, tmp, captured,
                   exitStatus>>

\* scp.CopyPath succeeds over a working connection: `return nil`.
CopyOk(c) ==
    /\ pc[c] = "copy"
    /\ tcp[connection[c]] = "open"
    /\ WriteFileReturn(c, NoErr)
    /\ runs' = [runs EXCEPT ![c] = @ + 1]
    /\ UNCHANGED <<cmd, dials, dialled, nsess, kaFailed, wrapper, kube, act>>
    /\ UNCHANGED <<s, agentUp, op, tcp, authMethods, hsAttempts, handshaked, ka,
                   kaCount, sess, connection, session, defers, tmp, captured,
                   exitStatus>>

(* ----------------------------------------------------------------- defers *)
\* The deferred calls run last registered first; the call has returned when
\* none is left.
AfterDefer(c) ==
    IF Len(defers[c]) = 1 THEN "done" ELSE "defers"

\* defer os.Remove(tempFile.Name())
RunDeferRemove(c) ==
    /\ pc[c] = "defers"
    /\ defers[c] # <<>>
    /\ defers[c][Len(defers[c])] = DeferRemove
    /\ tmp' = [tmp EXCEPT ![c] = "removed"]
    /\ defers' = [defers EXCEPT ![c] = SubSeq(@, 1, Len(@) - 1)]
    /\ pc' = [pc EXCEPT ![c] = AfterDefer(c)]
    /\ UNCHANGED <<cmd, dials, dialled, nsess, runs, kaFailed, wrapper, kube, act>>
    /\ UNCHANGED <<s, agentUp, op, tcp, authMethods, hsAttempts, handshaked, ka,
                   kaCount, sess, connection, session, captured, exitStatus, ret>>

\* A variant that closes every established connection of the client.
RunDeferConnectionClose_ClosesAll(c) ==
    /\ pc[c] = "defers"
    /\ defers[c] # <<>>
    /\ defers[c][Len(defers[c])] = DeferConnectionClose
    /\ tcp' = [d \in Calls |-> IF handshaked[d] THEN "closed" ELSE tcp[d]]
    /\ defers' = [defers EXCEPT ![c] = SubSeq(@, 1, Len(@) - 1)]
    /\ pc' = [pc EXCEPT ![c] = AfterDefer(c)]
    /\ UNCHANGED <<cmd, dials, dialled, nsess, runs, kaFailed, wrapper, kube, act>>
    /\ UNCHANGED <<s, agentUp, op, authMethods, hsAttempts, handshaked, ka,
                   kaCount, sess, connection, session, tmp, captured, exitStatus, ret>>

\* defer connection.Close(): closes the client and the transport under it.
RunDeferConnectionClose(c) ==
    /\ pc[c] = "defers"
    /\ defers[c] # <<>>
    /\ defers[c][Len(defers[c])] = DeferConnectionClose
    /\ tcp' = [tcp EXCEPT ![connection[c]] = "closed"]
    /\ defers' = [defers EXCEPT ![c] = SubSeq(@, 1, Len(@) - 1)]
    /\ pc' = [pc EXCEPT ![c] = AfterDefer(c)]
    /\ UNCHANGED <<cmd, dials, dialled, nsess, runs, kaFailed, wrapper, kube, act>>
    /\ UNCHANGED <<s, agentUp, op, authMethods, hsAttempts, handshaked, ka,
                   kaCount, sess, connection, session, tmp, captured, exitStatus, ret>>

\* defer session.Close(): the session is closed whatever the state of the
\* connection; the error it may return is dropped.
RunDeferSessionClose(c) ==
    /\ pc[c] = "defers"
    /\ defers[c] # <<>>
    /\ defers[c][Len(defers[c])] = DeferSessionClose
    /\ sess' = [sess EXCEPT ![session[c]] = "closed"]
    /\ defers' = [defers EXCEPT ![c] = SubSeq(@, 1, Len(@) - 1)]
    /\ pc' = [pc EXCEPT ![c] = AfterDefer(c)]
    /\ UNCHANGED <<cmd, dials, dialled, nsess, runs, kaFailed, wrapper, kube, act>>
    /\ UNCHANGED <<s, agentUp, op, tcp, authMethods, hsAttempts, handshaked, ka,
                   kaCount, connection, session, tmp, captured, exitStatus, ret>>

(* ---------------------------------------------------- keepalive goroutine *)
\* One iteration of the loop: the ticker fires, SendRequest("keepalive") is
\* answered over a working connection and the loop waits for the next tick.
KeepaliveSendOk(c) ==
    /\ ka[c] = "running"
    /\ tcp[c] = "open"
    /\ ka' = ka
    /\ UNCHANGED <<cmd, dials, dialled, nsess, runs, kaFailed, wrapper, kube, act>>
    /\ UNCHANGED <<s, agentUp, pc, op, tcp, authMethods, hsAttempts, handshaked,
                   kaCount, sess, connection, session, defers, tmp, captured,
                   exitStatus, ret>>

\* A variant that keeps looping after a failed send.
KeepaliveSendFail_Retry(c) ==
    /\ ka[c] = "running"
    /\ tcp[c] # "open"
    /\ ka' = ka
    /\ kaFailed' = [kaFailed EXCEPT ![c] = 1]
    /\ UNCHANGED <<cmd, dials, dialled, nsess, runs, wrapper, kube, act>>
    /\ UNCHANGED <<s, agentUp, pc, op, tcp, authMethods, hsAttempts, handshaked,
                   kaCount, sess, connection, session, defers, tmp, captured,
                   exitStatus, ret>>

\* A variant that closes the connection when a send fails.
KeepaliveSendFail_ClosesConnection(c) ==
    /\ ka[c] = "running"
    /\ tcp[c] # "open"
    /\ ka' = [ka EXCEPT ![c] = "done"]
    /\ kaFailed' = [kaFailed EXCEPT ![c] = @ + 1]
    /\ tcp' = [tcp EXCEPT ![c] = "closed"]
    /\ UNCHANGED <<cmd, dials, dialled, nsess, runs, wrapper, kube, act>>
    /\ UNCHANGED <<s, agentUp, pc, op, authMethods, hsAttempts, handshaked,
                   kaCount, sess, connection, session, defers, tmp, captured,
                   exitStatus, ret>>

\* One iteration of the loop: the ticker fires, SendRequest returns an error
\* on a closed or broken connection: `return`.
KeepaliveSendFail(c) ==
    /\ ka[c] = "running"
    /\ tcp[c] # "open"
    /\ ka' = [ka EXCEPT ![c] = "done"]
    /\ kaFailed' = [kaFailed EXCEPT ![c] = @ + 1]
    /\ UNCHANGED <<cmd, dials, dialled, nsess, runs, wrapper, kube, act>>
    /\ UNCHANGED <<s, agentUp, pc, op, tcp, authMethods, hsAttempts, handshaked,
                   kaCount, sess, connection, session, defers, tmp, captured,
                   exitStatus, ret>>

(* ------------------------------------------------------------ environment *)
\* The network or the remote host drops an established connection.
ConnBreak(c) ==
    /\ handshaked[c]
    /\ tcp[c] = "open"
    /\ tcp' = [tcp EXCEPT ![c] = "broken"]
    /\ UNCHANGED <<cmd, dials, dialled, nsess, runs, kaFailed, wrapper, kube, act>>
    /\ UNCHANGED <<s, agentUp, pc, op, authMethods, hsAttempts, handshaked, ka,
                   kaCount, sess, connection, session, defers, tmp, captured,
                   exitStatus, ret>>

(* ---------------------------------------------------------- specification *)
GetBasicSession(c) ==
    \/ DialFail(c)
    \/ DialKeepAliveFail(c)
    \/ DialOk(c)
    \/ AuthParseFail(c)
    \/ AuthOk(c)
    \/ HandshakeFail(c)
    \/ HandshakeOk(c)
    \/ NewSessionFail(c)
    \/ NewSessionOk(c)

WriteFile(c) ==
    \/ TempFileFail(c)
    \/ TempFileOk(c)
    \/ WriteFail(c)
    \/ WriteOk(c)
    \/ CopyFail(c)
    \/ CopyOk(c)

RunDefers(c) ==
    \/ RunDeferRemove(c)
    \/ RunDeferConnectionClose(c)
    \/ RunDeferSessionClose(c)

Keepalive(c) ==
    \/ KeepaliveSendOk(c)
    \/ KeepaliveSendFail(c)

Next ==
    \E c \in Calls :
        \/ Invoke(c)
        \/ GetBasicSession(c)
        \/ RunCMD(c)
        \/ RunOUT(c)
        \/ WriteFile(c)
        \/ RunDefers(c)
        \/ Keepalive(c)
        \/ ConnBreak(c)

Spec == Init /\ [][Next]_vars

\* The ticker of every keepalive goroutine keeps firing and its send returns.
FairSpec == Spec /\ \A c \in Calls : WF_vars(Keepalive(c))

(* ------------------------------------------ GetKubeConfig, GetKubeConfigBytes *)
GetKubeconfigCommand == "cat /etc/kubernetes/admin.conf"

KubeMethods == {"GetKubeConfig", "GetKubeConfigBytes"}

\* string(bytes): the bytes of the slice as the content of a string; a nil
\* slice and an empty one both give the empty string.
String(bytes) ==
    IF bytes = NilBytes THEN <<>> ELSE bytes[1]

\* GetKubeConfig, given what ProcessCMDWithOutput returned to it.
GetKubeConfig(r) ==
    IF r.err # NoErr
    THEN [text |-> <<>>, bytes |-> NilBytes, err |-> r.err, set |-> TRUE]
    ELSE [text |-> String(r.out), bytes |-> NilBytes, err |-> NoErr, set |-> TRUE]

\* A variant that hands on the bytes captured before the error.
GetKubeConfigBytes_KeepsPartial(r) ==
    [text |-> <<>>, bytes |-> r.out, err |-> r.err, set |-> TRUE]

\* GetKubeConfigBytes, given what ProcessCMDWithOutput returned to it.
GetKubeConfigBytes(r) ==
    IF r.err # NoErr
    THEN [text |-> <<>>, bytes |-> NilBytes, err |-> r.err, set |-> TRUE]
    ELSE [text |-> <<>>, bytes |-> r.out, err |-> NoErr, set |-> TRUE]

\* A caller invokes GetKubeConfig or GetKubeConfigBytes, which calls
\* ProcessCMDWithOutput(GetKubeconfigCommand).
InvokeKube(c) ==
    /\ pc[c] = "idle"
    /\ \E w \in KubeMethods : wrapper' = [wrapper EXCEPT ![c] = w]
    /\ op' = [op EXCEPT ![c] = OpOUT]
    /\ cmd' = [cmd EXCEPT ![c] = GetKubeconfigCommand]
    /\ pc' = [pc EXCEPT ![c] = "dial"]
    /\ UNCHANGED <<dials, dialled, nsess, runs, kaFailed, kube, act>>
    /\ UNCHANGED <<s, agentUp, tcp, authMethods, hsAttempts, handshaked, ka,
                   kaCount, sess, connection, session, defers, tmp, captured,
                   exitStatus, ret>>

\* ProcessCMDWithOutput has returned to the method, which returns.
KubeReturn(c) ==
    /\ pc[c] = "done"
    /\ wrapper[c] \in KubeMethods
    /\ ~kube[c].set
    /\ kube' = [kube EXCEPT ![c] =
            IF wrapper[c] = "GetKubeConfig" THEN GetKubeConfig(ret[c])
            ELSE GetKubeConfigBytes(ret[c])]
    /\ UNCHANGED <<cmd, dials, dialled, nsess, runs, kaFailed, wrapper, act>>
    /\ UNCHANGED <<s, agentUp, pc, op, tcp, authMethods, hsAttempts, handshaked,
                   ka, kaCount, sess, connection, session, defers, tmp, captured,
                   exitStatus, ret>>

KubeNext ==
    \E c \in Calls :
        \/ InvokeKube(c)
        \/ GetBasicSession(c)
        \/ RunOUT(c)
        \/ RunDeferConnectionClose(c)
        \/ RunDeferSessionClose(c)
        \/ Keepalive(c)
        \/ ConnBreak(c)
        \/ KubeReturn(c)

\* The client used through GetKubeConfig and GetKubeConfigBytes.
KubeSpec == Init /\ [][KubeNext]_vars

(* ------------------------------------------------- Actuator.GetKubeConfig *)
clientVars ==
    <<s, agentUp, pc, op, tcp, authMethods, hsAttempts, handshaked, ka,
      kaCount, sess, connection, session, defers, tmp, captured, exitStatus,
      ret, cmd, dials, dialled, nsess, runs, kaFailed, wrapper, kube>>

SecretNames == {"master-key", "node-key"}

\* What a.machineproviderconfig can decode a provider config into.
MachineConfigs ==
    {[SSHConfig |-> [Host |-> "10.0.0.5", Port |-> 22, SecretName |-> n]] :
        n \in SecretNames}

\* What a secret can hold under "private-key"; a secret without that entry
\* gives the empty string.
SecretData == {"", "cGxhaW5rZXk=", "ZW5ja2V5", "-----BEGIN"}

\* base64.StdEncoding.DecodeString: the decoded text, or "err" for input that
\* is not standard base64.
Base64Decode(data) ==
    CASE data = "" -> <<"">>
      [] data = "cGxhaW5rZXk=" -> <<"plainkey">>
      [] data = "ZW5ja2V5" -> <<"enckey">>
      [] OTHER -> <<"err">>

\* What a.sshClient.GetKubeConfig can return.
SshClientResults ==
    {[text |-> "apiVersion: v1", err |-> NoErr], [text |-> "", err |-> Err("ssh")]}

\* `return "", err`
ActuatorFail(m, k) ==
    act' = [act EXCEPT ![m].ret = [text |-> "", err |-> Err(k)], ![m].pc = "done"]

\* Actuator.GetKubeConfig is invoked for a machine.
ActuatorGetKubeConfig(m) ==
    /\ act[m].pc = "idle"
    /\ act' = [act EXCEPT ![m].pc = "config"]
    /\ UNCHANGED clientVars

\* a.machineproviderconfig returns an error to GetKubeConfig.
ConfigFail(m) ==
    /\ act[m].pc = "config"
    /\ ActuatorFail(m, "config")
    /\ UNCHANGED clientVars

\* a.machineproviderconfig returns the machine config to GetKubeConfig, which
\* calls a.getPrivateKey.
ConfigOk(m) ==
    /\ act[m].pc = "config"
    /\ \E cfg \in MachineConfigs :
         act' = [act EXCEPT ![m].machineConfig = <<cfg>>, ![m].pc = "keyconfig"]
    /\ UNCHANGED clientVars

\* a.machineproviderconfig returns an error to getPrivateKey.
KeyConfigFail(m) ==
    /\ act[m].pc = "keyconfig"
    /\ ActuatorFail(m, "config")
    /\ UNCHANGED clientVars

\* a.machineproviderconfig returns the machine config to getPrivateKey.
KeyConfigOk(m) ==
    /\ act[m].pc = "keyconfig"
    /\ \E cfg \in MachineConfigs :
         act' = [act EXCEPT ![m].keyConfig = <<cfg>>, ![m].pc = "secret"]
    /\ UNCHANGED clientVars

\* The lookup of the secret named in the machine config fails.
SecretGetFail(m) ==
    /\ act[m].pc = "secret"
    /\ ActuatorFail(m, "secret")
    /\ UNCHANGED clientVars

\* The lookup returns the secret.
SecretGetOk(m) ==
    /\ act[m].pc = "secret"
    /\ \E data \in SecretData :
         act' = [act EXCEPT ![m].secret = <<data>>, ![m].pc = "decode"]
    /\ UNCHANGED clientVars

\* A variant that uses the undecoded secret as the key when decoding fails.
DecodeFail_UsesRaw(m) ==
    /\ act[m].pc = "decode"
    /\ Base64Decode(act[m].secret[1]) = <<"err">>
    /\ act' = [act EXCEPT ![m].privateKey = act[m].secret, ![m].pc = "ssh"]
    /\ UNCHANGED clientVars

\* base64 decoding of the secret's private key fails.
DecodeFail(m) ==
    /\ act[m].pc = "decode"
    /\ Base64Decode(act[m].secret[1]) = <<"err">>
    /\ ActuatorFail(m, "base64")
    /\ UNCHANGED clientVars

\* The private key is decoded and returned to GetKubeConfig.
DecodeOk(m) ==
    /\ act[m].pc = "decode"
    /\ Base64Decode(act[m].secret[1]) # <<"err">>
    /\ act' = [act EXCEPT ![m].privateKey = Base64Decode(act[m].secret[1]),
                          ![m].pc = "ssh"]
    /\ UNCHANGED clientVars

\* return a.sshClient.GetKubeConfig(privateKey, machineConfig.SSHConfig)
SshClientGetKubeConfig(m) ==
    /\ act[m].pc = "ssh"
    /\ \E r \in SshClientResults :
         act' = [act EXCEPT
                    ![m].sshCalls = @ + 1,
                    ![m].sshArgs = <<act[m].privateKey[1],
                                    act[m].machineConfig[1].SSHConfig>>,
                    ![m].ret = r,
                    ![m].pc = "done"]
    /\ UNCHANGED clientVars

ActuatorNext ==
    \E m \in Machines :
        \/ ActuatorGetKubeConfig(m)
        \/ ConfigFail(m)
        \/ ConfigOk(m)
        \/ KeyConfigFail(m)
        \/ KeyConfigOk(m)
        \/ SecretGetFail(m)
        \/ SecretGetOk(m)
        \/ DecodeFail(m)
        \/ DecodeOk(m)
        \/ SshClientGetKubeConfig(m)

\* The Actuator takes the key and the endpoint of each invocation from the
\* machine and the secret, not from a client built beforehand.
ActuatorInit ==
    /\ Init
    /\ s = NewSSHProviderClient("", "", "10.0.0.5:22", 22, "core")
    /\ ~agentUp

ActuatorSpec == ActuatorInit /\ [][ActuatorNext]_vars

(* ----------------------------------------------------------------- claims *)
Returned(c) == pc[c] = "done"

\* The error a caller returns when GetBasicSession failed with an error of
\* kind k.
CreateErr(c, k) == SessionErr(op[c], Err(k))

\* GetBasicSession returned an error to call c.
CreateFailed(c) ==
    \E k \in {"dial", "keepalive", "parse", "handshake", "session"} :
        ret[c].err = CreateErr(c, k)

\* C1: when a call has returned, on whatever exit path, every Connection that
\* was established during the call (a successful handshake) has been closed.
C1_ConnectionClosedOnReturn ==
    \A c \in Calls : Returned(c) /\ handshaked[c] => tcp[c] = "closed"

\* C2: once a call has returned, with or without an error, no Session opened
\* by that call is still open.
C2_NoSessionOpenAfterReturn ==
    \A c \in Calls : Returned(c) => sess[c] # "open"

\* A call that opened a Session has returned an error and the Session is closed.
C2_Witness ==
    \E c \in Calls :
        Returned(c) /\ sess[c] = "closed" /\ ret[c].err = Err("exit")

\* C3: whenever GetBasicSession returns an error, every transport connection
\* it dialled has been closed.
C3_CleanupOnEstablishError ==
    \A c \in Calls :
        Returned(c) /\ CreateFailed(c) => tcp[c] \in {"none", "closed"}

\* C4: after a call has returned, the Keepalive task it started eventually
\* terminates.
C4_KeepaliveEndsAfterReturn ==
    \A c \in Calls : [](Returned(c) => <>(ka[c] # "running"))

\* C5: a caller holds a non-nil Connection only if the handshake over the
\* dialled transport succeeded, and no Session or Keepalive task exists for a
\* transport whose handshake has not succeeded.
C5_NoConnectionWithoutHandshake ==
    \A c \in Calls :
        /\ connection[c] # Nil => handshaked[connection[c]]
        /\ sess[c] # "none" => handshaked[c]
        /\ (ka[c] # "none" \/ kaCount[c] > 0) => handshaked[c]

\* A caller holds a Connection with its Session open and its Keepalive running.
C5_Witness ==
    \E c \in Calls :
        connection[c] = c /\ sess[c] = "open" /\ ka[c] = "running" /\ pc[c] = "run"

\* C6: a temporary file created by WriteFile is not on disk once WriteFile
\* has returned, whether it succeeded, the write failed or the copy failed.
C6_NoTempFileAfterReturn ==
    \A c \in Calls : Returned(c) => tmp[c] \notin {"exists", "written"}

\* WriteFile has returned the error of a failed remote copy and its file is gone.
C6_Witness ==
    \E c \in Calls :
        Returned(c) /\ op[c] = OpWF /\ ret[c].err = Err("copy") /\ tmp[c] = "removed"

\* C7: the number of Keepalive tasks ever started on a transport is one if its
\* handshake succeeded and zero otherwise; a connection attempt that failed
\* at dial, keepalive setting, key parsing or handshake started none.
C7_OneKeepalivePerConnection ==
    \A c \in Calls :
        /\ kaCount[c] = (IF handshaked[c] THEN 1 ELSE 0)
        /\ (Returned(c) /\ \E k \in {"dial", "keepalive", "parse", "handshake"} :
                ret[c].err = CreateErr(c, k)) => kaCount[c] = 0

\* One call completed its handshake and started its task; another failed its
\* handshake and started none.
C7_Witness ==
    \E c, d \in Calls :
        /\ handshaked[c] /\ kaCount[c] = 1
        /\ Returned(d) /\ ret[d].err = CreateErr(d, "handshake") /\ kaCount[d] = 0

\* C8: once the Connection is closed or broken, its running Keepalive task
\* eventually terminates, and the step that ends it changes neither the
\* position nor the result of any call.
C8_KeepaliveEndsOnDeadConnection ==
    /\ \A c \in Calls :
         [](ka[c] = "running" /\ tcp[c] \in {"closed", "broken"} => <>(ka[c] = "done"))
    /\ [][\A c \in Calls : ka[c] = "running" /\ ka'[c] = "done" => ret' = ret /\ pc' = pc]_vars

\* A call returned success, its Connection is closed and its task has ended.
C8_Witness ==
    \E c \in Calls :
        Returned(c) /\ ret[c].err = NoErr /\ tcp[c] = "closed" /\ ka[c] = "done"

\* C9 as stated: ProcessCMDWithOutput returns an error exactly when the remote
\* exit status is non-zero.
C9_ErrorIffNonZeroExit ==
    \A c \in Calls :
        Returned(c) /\ op[c] = OpOUT =>
            (ret[c].err # NoErr <=> (exitStatus[c] # NoStatus /\ exitStatus[c] # {0}))

\* C9 amended: whenever the command was run, ProcessCMDWithOutput returns the
\* captured bytes unchanged, whatever the status or error; its error is non-nil
\* whenever the remote exit status is non-zero, and nil only when the remote
\* command reported exit status zero.
C9_OutputAndErrorOfRunForOutput ==
    \A c \in Calls :
        Returned(c) /\ op[c] = OpOUT =>
            /\ (exitStatus[c] # NoStatus /\ exitStatus[c] # {0}) => ret[c].err # NoErr
            /\ ret[c].err = NoErr => exitStatus[c] = {0}
            /\ session[c] # Nil => ret[c].out = captured[c] /\ captured[c] # NilBytes

\* ProcessCMDWithOutput returned non-empty bytes together with an exit error.
C9_Witness ==
    \E c \in Calls :
        /\ Returned(c) /\ op[c] = OpOUT
        /\ exitStatus[c] = {1} /\ ret[c].err = Err("exit")
        /\ ret[c].out = SomeBytes(<<0>>)

\* The key material is present and cannot be parsed.
KeyNeverParses ==
    s.privateKey # "" /\ PublicKeyFile(s.privateKey, s.passPhrase) = {"err"}

\* C10: when key material is present but does not parse, no handshake is
\* attempted and no Connection is produced, and a call that returned the parse
\* error attempted no handshake and holds no Connection, agent or no agent.
C10_ParseFailureAborts ==
    \A c \in Calls :
        /\ KeyNeverParses =>
              /\ hsAttempts[c] = 0 /\ ~handshaked[c] /\ connection[c] = Nil
              /\ Returned(c) =>
                    \E k \in {"dial", "keepalive", "parse"} : ret[c].err = CreateErr(c, k)
        /\ (Returned(c) /\ ret[c].err = CreateErr(c, "parse")) =>
              /\ s.privateKey # ""
              /\ hsAttempts[c] = 0 /\ ~handshaked[c] /\ connection[c] = Nil

\* A call returned the parse error of an encrypted key given the wrong
\* passphrase while the agent was reachable.
C10_Witness ==
    \E c \in Calls :
        /\ Returned(c) /\ ret[c].err = CreateErr(c, "parse")
        /\ s.privateKey = "enckey" /\ s.passPhrase = "wrong" /\ agentUp

\* The client holds no key material and no agent can be reached.
NoCredentials ==
    s.privateKey = "" /\ ~agentUp

\* C11 as stated: with no key material and no reachable agent a call fails
\* without a Connection, and when the authentication failure is reported no
\* transport connection to the remote endpoint has been opened.
C11_AuthFailsBeforeDial ==
    NoCredentials =>
        \A c \in Calls :
            /\ Returned(c) => CreateFailed(c) /\ connection[c] = Nil
            /\ (Returned(c) /\ ret[c].err = CreateErr(c, "handshake")) => tcp[c] = "none"

\* C11 amended: with no key material and no reachable agent no Connection is
\* ever produced and every call fails inside GetBasicSession; the handshake,
\* the step that reports the exhausted authentication, is attempted only over
\* a transport that was dialled before it, with an empty method list, and that
\* transport is closed when the failure is reported.
C11_AuthFailsAfterDial ==
    NoCredentials =>
        \A c \in Calls :
            /\ ~handshaked[c] /\ connection[c] = Nil /\ ka[c] = "none"
            /\ Returned(c) => CreateFailed(c)
            /\ hsAttempts[c] > 0 => tcp[c] # "none" /\ authMethods[c] = <<>>
            /\ (Returned(c) /\ ret[c].err = CreateErr(c, "handshake")) =>
                    hsAttempts[c] = 1 /\ tcp[c] = "closed"

\* A call without credentials returned the handshake error over a transport
\* that had been dialled.
C11_Witness ==
    \E c \in Calls :
        /\ NoCredentials /\ Returned(c)
        /\ ret[c].err = CreateErr(c, "handshake") /\ tcp[c] = "closed"

Finished(c) == pc[c] \in {"defers", "done"}

\* C13: a call dials at most once, runs at most one handshake, opens at most
\* one session and runs its command or copy at most once, each step only after
\* the one before it; the connection never carries more than that one session;
\* and the error a call returns is the error of its first failing step, no
\* later step having been taken.
C13_NoRetryNoMultiplexing ==
    \A c \in Calls :
        /\ dials[c] <= 1 /\ hsAttempts[c] <= 1 /\ nsess[c] <= 1 /\ runs[c] <= 1
        /\ hsAttempts[c] <= dials[c] /\ nsess[c] <= hsAttempts[c]
        /\ runs[c] <= nsess[c]
        /\ sess[c] = "open" => nsess[c] = 1
        /\ Finished(c) =>
            /\ ret[c].err \in {CreateErr(c, "dial"), CreateErr(c, "keepalive"),
                                CreateErr(c, "parse")} =>
                    dials[c] = 1 /\ hsAttempts[c] = 0
            /\ ret[c].err \in {CreateErr(c, "handshake"), CreateErr(c, "session")} =>
                    hsAttempts[c] = 1 /\ nsess[c] = 0
            /\ ret[c].err \in {Err("tempfile"), Err("write")} =>
                    nsess[c] = 1 /\ runs[c] = 0
            /\ ret[c].err \in {Err("exit"), Err("transport"), Err("copy"), NoErr} =>
                    runs[c] = 1
            /\ \/ CreateFailed(c)
               \/ ret[c].err \in {Err("tempfile"), Err("write"), Err("exit"),
                                   Err("transport"), Err("copy"), NoErr}

\* Both calls have returned: one after its handshake failed, without opening
\* a session, the other after running its command once.
C13_Witness ==
    \E c, d \in Calls :
        /\ Returned(c) /\ ret[c].err = CreateErr(c, "handshake")
        /\ dials[c] = 1 /\ hsAttempts[c] = 1 /\ nsess[c] = 0
        /\ Returned(d) /\ ret[d].err = Err("exit") /\ runs[d] = 1

\* C14: the address a call hands to net.Dial is the host and the port of the
\* client's endpoint, joined.
C14_DialsHostAndPort ==
    \A c \in Calls :
        dials[c] > 0 => dialled[c] = <<s.address, s.port>>

\* The entries of a method list.
Entries(m) == {m[i] : i \in 1..Len(m)}

\* C15: the method list a call hands to the handshake holds the public-key
\* method exactly when the client has key material and the agent method
\* exactly when the agent can be reached, each at most once and nothing else,
\* the public-key method before the agent method.
C15_AuthMethodList ==
    \A c \in Calls :
        (pc[c] = "handshake" \/ hsAttempts[c] > 0) =>
            /\ Entries(authMethods[c]) \subseteq {"publickey", "agent"}
            /\ Len(authMethods[c]) = Cardinality(Entries(authMethods[c]))
            /\ "publickey" \in Entries(authMethods[c]) <=> s.privateKey # ""
            /\ "agent" \in Entries(authMethods[c]) <=> agentUp
            /\ Len(authMethods[c]) = 2 => authMethods[c][1] = "publickey"

\* A handshake was run with both methods on offer.
C15_Witness ==
    \E c \in Calls :
        /\ hsAttempts[c] = 1 /\ s.privateKey # "" /\ agentUp
        /\ Len(authMethods[c]) = 2

\* The step is one of call c: of its body, of its deferred releases or of the
\* keepalive goroutine it started.
StepOf(c) ==
    \/ pc'[c] # pc[c]
    \/ defers'[c] # defers[c]
    \/ ka'[c] # ka[c]
    \/ kaFailed'[c] # kaFailed[c]

\* C16: the client and the session a call holds are the ones it created; a
\* step of one call, a close among them, leaves the transport, the client,
\* the session, the keepalive goroutine, the temporary file and the result of
\* every other call as they were; and no step changes the fields of the
\* sshProviderClient.
C16_CallsIndependent ==
    [][/\ s' = s
       /\ \A c \in Calls :
            /\ connection'[c] \in {Nil, c}
            /\ session'[c] \in {Nil, c}
            /\ StepOf(c) =>
                \A d \in Calls \ {c} :
                    /\ tcp'[d] = tcp[d] /\ handshaked'[d] = handshaked[d]
                    /\ sess'[d] = sess[d] /\ ka'[d] = ka[d]
                    /\ connection'[d] = connection[d]
                    /\ session'[d] = session[d]
                    /\ tmp'[d] = tmp[d] /\ ret'[d] = ret[d]
                    /\ authMethods'[d] = authMethods[d]
      ]_vars

\* One call has returned with its connection and session closed while the
\* other is running its command over an open connection and session with its
\* keepalive goroutine alive.
C16_Witness ==
    \E c, d \in Calls :
        /\ Returned(c) /\ handshaked[c] /\ tcp[c] = "closed" /\ sess[c] = "closed"
        /\ pc[d] = "run" /\ tcp[d] = "open" /\ sess[d] = "open"
        /\ ka[d] = "running"

\* C17, the states of a WriteFile call: a temporary file exists only after
\* the session was obtained; a call whose session establishment failed created
\* none and copied nothing; a call that failed to create or to write the file
\* attempted no copy; and once a call that obtained a session has returned,
\* whatever step failed, the file it created is deleted and its session and
\* connection releases have run.
C17_WriteFileStates ==
    \A c \in Calls :
        op[c] = OpWF =>
            /\ tmp[c] # "none" => nsess[c] = 1
            /\ pc[c] = "write" => tmp[c] = "exists"
            /\ pc[c] = "copy" => tmp[c] = "written" /\ runs[c] = 0
            /\ Finished(c) /\ CreateFailed(c) => tmp[c] = "none" /\ runs[c] = 0
            /\ Finished(c) /\ ret[c].err = Err("tempfile") =>
                    tmp[c] = "none" /\ runs[c] = 0
            /\ Finished(c) /\ ret[c].err = Err("write") =>
                    tmp[c] \in {"exists", "removed"} /\ runs[c] = 0
            /\ Returned(c) /\ nsess[c] = 1 =>
                    /\ tmp[c] \in {"none", "removed"}
                    /\ defers[c] = <<>>
                    /\ tcp[c] = "closed" /\ sess[c] = "closed"

\* C17, the steps of a WriteFile call: the file is created by a call holding
\* an open session and no file yet, written after it was created, copied
\* after it was written and while it is still there, and deleted after the
\* call has computed its result; nothing is created, written or copied after
\* the deletion.
C17_WriteFileSteps ==
    \A c \in Calls :
        op[c] = OpWF =>
            /\ (tmp[c] # "exists" /\ tmp'[c] = "exists") =>
                    tmp[c] = "none" /\ sess[c] = "open" /\ session[c] = c
            /\ (tmp[c] # "written" /\ tmp'[c] = "written") => tmp[c] = "exists"
            /\ runs'[c] # runs[c] =>
                    tmp[c] = "written" /\ tmp'[c] = "written" /\ Finished(c)'
            /\ (tmp[c] # "removed" /\ tmp'[c] = "removed") =>
                    tmp[c] \in {"exists", "written"} /\ Finished(c)
            /\ tmp[c] = "removed" => tmp'[c] = "removed" /\ runs'[c] = runs[c]

C20_ReleasesLastRegisteredFirst ==
    [][\A c \in Calls :
        /\ (tmp[c] # "removed" /\ tmp'[c] = "removed") =>
                tcp[c] # "closed" /\ sess[c] = "open"
        /\ (pc[c] = "defers" /\ tcp[c] # "closed" /\ tcp'[c] = "closed") =>
                tmp[c] \in {"none", "removed"} /\ sess[c] = "open"
        /\ (sess[c] = "open" /\ sess'[c] = "closed") =>
                tcp[c] = "closed" /\ tmp[c] \in {"none", "removed"}
      ]_vars

\* A WriteFile call has removed its file and closed its connection and is
\* about to close its session.
C20_Witness ==
    \E c \in Calls :
        /\ op[c] = OpWF /\ pc[c] = "defers" /\ defers[c] = <<DeferSessionClose>>
        /\ tmp[c] = "removed" /\ tcp[c] = "closed" /\ sess[c] = "open"

\* C18: a kubeconfig method makes one ProcessCMDWithOutput call, with the
\* fixed command, and returns after it; when that call returned an error the
\* method returns that error with the empty string or nil bytes, whatever was
\* captured; when it returned none, GetKubeConfig returns the captured bytes
\* as text and GetKubeConfigBytes the captured bytes, so that for equal
\* captured bytes the text of the one is the bytes of the other.
C18_KubeConfigMethods ==
    /\ \A c \in Calls :
        /\ wrapper[c] # Nil =>
                /\ op[c] = OpOUT /\ cmd[c] = GetKubeconfigCommand
                /\ runs[c] <= 1
        /\ kube[c].set =>
                /\ Returned(c) /\ kube[c].err = ret[c].err
                /\ ret[c].err # NoErr =>
                        kube[c].text = <<>> /\ kube[c].bytes = NilBytes
                /\ ret[c].err = NoErr =>
                        /\ runs[c] = 1
                        /\ wrapper[c] = "GetKubeConfig" =>
                                SomeBytes(kube[c].text) = captured[c]
                        /\ wrapper[c] = "GetKubeConfigBytes" =>
                                kube[c].bytes = captured[c]
    /\ \A c, d \in Calls :
        (/\ kube[c].set /\ kube[d].set
         /\ wrapper[c] = "GetKubeConfig" /\ wrapper[d] = "GetKubeConfigBytes"
         /\ kube[c].err = NoErr /\ kube[d].err = NoErr
         /\ captured[c] = captured[d]) =>
            SomeBytes(kube[c].text) = kube[d].bytes

\* GetKubeConfig returned the text of the captured bytes and
\* GetKubeConfigBytes, whose command failed after the same bytes were
\* captured, returned nil bytes with the error.
C18_Witness ==
    \E c, d \in Calls :
        /\ wrapper[c] = "GetKubeConfig" /\ kube[c].set
        /\ kube[c].err = NoErr /\ kube[c].text = <<0>>
        /\ wrapper[d] = "GetKubeConfigBytes" /\ kube[d].set
        /\ kube[d].err = Err("exit") /\ ret[d].out = SomeBytes(<<0>>)
        /\ kube[d].bytes = NilBytes

\* C19: Actuator.GetKubeConfig invokes the SSH client at most once, and only
\* once the provider config has been decoded and, after that, the private key
\* retrieved: the secret looked up and its data base64-decoded, the decoded
\* key and the SSHConfig of the decoded config being what the SSH client is
\* given. When the decode, the lookup or the base64 decoding fails it returns
\* the empty string with that error and the SSH client is not invoked.
C19_SshOnlyAfterConfigAndKey ==
    \A m \in Machines :
        /\ act[m].sshCalls <= 1
        /\ act[m].keyConfig # <<>> => act[m].machineConfig # <<>>
        /\ act[m].secret # <<>> => act[m].keyConfig # <<>>
        /\ act[m].privateKey # <<>> =>
                /\ act[m].secret # <<>>
                /\ act[m].privateKey = Base64Decode(act[m].secret[1])
                /\ act[m].privateKey # <<"err">>
        /\ act[m].sshCalls = 1 =>
                /\ act[m].machineConfig # <<>> /\ act[m].privateKey # <<>>
                /\ act[m].sshArgs = <<act[m].privateKey[1],
                                      act[m].machineConfig[1].SSHConfig>>
        /\ act[m].pc = "done" =>
                /\ \/ act[m].machineConfig = <<>>
                   \/ act[m].keyConfig = <<>>
                   \/ act[m].secret = <<>>
                   \/ act[m].privateKey = <<>>
                   => /\ act[m].sshCalls = 0 /\ act[m].ret.text = ""
                      /\ act[m].ret.err \in {Err("config"), Err("secret"), Err("base64")}
                /\ act[m].ret.err \in {Err("config"), Err("secret"), Err("base64")} =>
                        act[m].sshCalls = 0 /\ act[m].ret.text = ""
                /\ act[m].ret.err = Err("config") =>
                        act[m].secret = <<>>
                /\ act[m].ret.err = Err("secret") =>
                        act[m].keyConfig # <<>> /\ act[m].secret = <<>>
                /\ act[m].ret.err = Err("base64") =>
                        act[m].secret # <<>> /\ act[m].privateKey = <<>>
                /\ act[m].sshCalls = 0 => act[m].ret.err # NoErr

\* One invocation has returned the base64 error without invoking the SSH
\* client; another has invoked it with a decoded key.
C19_Witness ==
    \E m, n \in Machines :
        /\ act[m].pc = "done" /\ act[m].ret.err = Err("base64")
        /\ act[m].sshCalls = 0 /\ act[m].secret = <<"-----BEGIN">>
        /\ act[n].pc = "done" /\ act[n].sshCalls = 1
        /\ act[n].sshArgs[1] = "plainkey"

====
